---------------------------- MODULE Spec2Model ----------------------------
(***************************************************************************)
(* A model of png-framing (src/src/lib.rs): the Png<T> value, its          *)
(* constructors (from_bytes, new / From<Chunky<Rgba>>, decode, load), its  *)
(* accessors (buffer, as_ref, as_mut, pixel, encode, save, into_buffer),   *)
(* and the Native adapter over memory the codec allocates.                 *)
(*                                                                         *)
(* The program is a single thread holding at most one Png binding `png`    *)
(* and a set `held` of Native buffers moved out of a Png by into_buffer.   *)
(* A panic ends the program: every live value is dropped while unwinding.  *)
(* usize is WordBits wide; `overflow_checks` is the build's choice between *)
(* panicking on arithmetic overflow (debug) and wrapping (release).        *)
(***************************************************************************)
EXTENDS Integers, Sequences, FiniteSets

VARIABLES
    png,              \* the live Png value, or NoPng
    origin,           \* how `png` was built and from what
    heap,             \* the codec's allocator: each block "free" or "live"
    held,             \* allocations owned by Native values moved out of a Png
    faults,           \* memory faults that have happened
    result,           \* what the last operation returned
    panicked,         \* the thread has panicked
    overflow_checks   \* the build panics on integer overflow

vars == <<png, origin, heap, held, faults, result, panicked, overflow_checks>>

---------------------------------------------------------------------------
(* Bounds *)

WordBits == 6
MaxArg == 4
MaxLen == 16
MaxDim == 2
MaxAllocs == 2

Byte == 0..255

Modulus == 2 ^ WordBits
IsizeMax == 2 ^ (WordBits - 1) - 1

\* size_of::<lodepng::RGBA<u8>>(): four u8 fields
SizeOfRGBA == 4

\* the pixels images are painted with: no two channels of them agree
Colours == {<<10, 20, 30, 255>>, <<200, 100, 50, 0>>}

SeqsUpTo(S, n) == UNION {[1..k -> S] : k \in 0..n}

\* the bytes of a sequence of pixels, (R, G, B, A) each
Flatten(ps) ==
    [i \in 1..(Len(ps) * SizeOfRGBA) |->
        ps[((i - 1) \div SizeOfRGBA) + 1][((i - 1) % SizeOfRGBA) + 1]]

\* the buffers of exactly n bytes, n a multiple of the pixel size
WholeBuffers(n) == {Flatten(ps) : ps \in [1..(n \div SizeOfRGBA) -> Colours]}

\* byte buffers of up to MaxLen bytes: whole pixels in every colouring, and
\* for the lengths that cut a pixel a buffer of zeroes
Buffers ==
    UNION {IF n % SizeOfRGBA = 0 THEN WholeBuffers(n) ELSE {[i \in 1..n |-> 0]} :
           n \in 0..MaxLen}

AllocIds == 1..MaxAllocs

---------------------------------------------------------------------------
(* usize / isize arithmetic *)

\* a * b on usize: panics on overflow when the build checks, wraps otherwise
UMul(a, b, checks) ==
    IF a * b < Modulus THEN [ok |-> TRUE, v |-> a * b]
    ELSE IF checks THEN [ok |-> FALSE, v |-> 0]
    ELSE [ok |-> TRUE, v |-> (a * b) % Modulus]

UAdd(a, b, checks) ==
    IF a + b < Modulus THEN [ok |-> TRUE, v |-> a + b]
    ELSE IF checks THEN [ok |-> FALSE, v |-> 0]
    ELSE [ok |-> TRUE, v |-> (a + b) % Modulus]

\* `v as isize`: the same bits read as two's complement
AsIsize(v) == IF v <= IsizeMax THEN v ELSE v - Modulus

\* a * b on isize
IMul(a, b, checks) ==
    IF a * b <= IsizeMax /\ a * b >= -(IsizeMax + 1) THEN [ok |-> TRUE, v |-> a * b]
    ELSE IF checks THEN [ok |-> FALSE, v |-> 0]
    ELSE [ok |-> TRUE, v |-> AsIsize((a * b) % Modulus)]

---------------------------------------------------------------------------
(* Values *)

NoBuffer == [kind |-> "none", bytes |-> <<>>, alloc |-> 0, elems |-> <<>>, length |-> 0]

\* a Vec<u8>
VecBuffer(bytes) == [NoBuffer EXCEPT !.kind = "vec", !.bytes = bytes]

\* (mutant) the element count taken for the byte count
NativeNewShort(alloc, elems) ==
    [NoBuffer EXCEPT !.kind = "native", !.alloc = alloc, !.elems = elems,
                     !.length = Len(elems)]

\* Native::new: the CVec of RGBA structs and its length in bytes
NativeNew(alloc, elems) ==
    [NoBuffer EXCEPT !.kind = "native", !.alloc = alloc, !.elems = elems,
                     !.length = Len(elems) * SizeOfRGBA]

\* AsRef<[u8]> for Native: `length` bytes starting at the first struct
NativeAsRef(b) ==
    [i \in 1..b.length |->
        b.elems[((i - 1) \div SizeOfRGBA) + 1][((i - 1) % SizeOfRGBA) + 1]]

\* T::as_ref() for the two buffer types a Png is built over
BufferAsRef(b) ==
    IF b.kind = "native" THEN NativeAsRef(b) ELSE b.bytes

NoPng == [width |-> 0, height |-> 0, buffer |-> NoBuffer]

IsLive(p) == p.buffer.kind # "none"

\* AsRef<[u8]> for Png<T>
AsRefBytes(p) == BufferAsRef(p.buffer)

\* how `png` came to be: the constructor, the bytes it was given (from_bytes)
\* or the byte view of the Png whose encode() output was decoded (chained),
\* the image it was materialized from (new), and whether as_mut has been
\* written through since
NoOrigin ==
    [how |-> "none", bytes |-> <<>>, src |-> <<>>, chained |-> FALSE, written |-> FALSE]

NoResult ==
    [op |-> "none", status |-> "none", width |-> 0, height |-> 0, len |-> 0,
     x |-> 0, y |-> 0, px |-> <<>>, offset |-> 0, inside |-> TRUE,
     codec_ok |-> TRUE, breach |-> FALSE, chained |-> FALSE, base |-> "none",
     out |-> <<>>, nth |-> 0, input_len |-> 0]

Res(op, status) == [NoResult EXCEPT !.op = op, !.status = status]

---------------------------------------------------------------------------
(* The codec (lodepng), an external service: RGBA8888 in, a byte stream    *)
(* out, and its inverse.  A stream is a header <<width, height>> followed  *)
(* by the pixel bytes.                                                     *)

Lodepng_encode32(view, width, height) ==
    IF Len(view) = width * height * SizeOfRGBA
    THEN [ok |-> TRUE, out |-> <<width, height>> \o view]
    ELSE [ok |-> FALSE, out |-> <<>>]

WellFormed(input) ==
    /\ Len(input) >= 2
    /\ Len(input) - 2 = input[1] * input[2] * SizeOfRGBA

\* the payload of a stream as RGBA structs
Elems(input) ==
    [k \in 1..((Len(input) - 2) \div SizeOfRGBA) |->
        [c \in 1..SizeOfRGBA |-> input[2 + (k - 1) * SizeOfRGBA + c]]]

CodecErr ==
    [ok |-> FALSE, width |-> 0, height |-> 0, elems |-> <<>>, breach |-> FALSE]

ZeroPixel == [c \in 1..SizeOfRGBA |-> 0]

\* What decode32 may return for `input`: an error for a malformed stream;
\* for a well-formed one the image, or (a codec breaking its contract) the
\* image with an element missing or an element too many.
Lodepng_decode32(input) ==
    IF ~WellFormed(input) THEN {CodecErr}
    ELSE LET bmp == [ok |-> TRUE, width |-> input[1], height |-> input[2],
                     elems |-> Elems(input), breach |-> FALSE]
         IN {bmp,
             [bmp EXCEPT !.elems = Append(bmp.elems, ZeroPixel), !.breach = TRUE]}
            \cup (IF Len(bmp.elems) > 0
                  THEN {[bmp EXCEPT !.elems = SubSeq(bmp.elems, 1, Len(bmp.elems) - 1),
                                    !.breach = TRUE]}
                  ELSE {})

\* decode32_file: the path cannot be read, or holds `contents`
Lodepng_decode32_file(readable, contents) ==
    IF ~readable THEN {CodecErr} ELSE Lodepng_decode32(contents)

Streams ==
    {<<w, h>> \o b : w \in 0..MaxDim, h \in 0..MaxDim, b \in Buffers}

\* byte strings handed to decode: streams, well-formed or with a payload of
\* the wrong length, a lone header byte, and the empty input
DecodeInputs == {<<>>} \cup {<<w>> : w \in 0..MaxDim} \cup Streams

---------------------------------------------------------------------------
(* Images of the framing crate: a function-backed image and its            *)
(* materialization into a Chunky<Rgba> frame.                              *)

Coords(w, h) == (0..(w - 1)) \X (0..(h - 1))

\* Function::new(width, height, f), with w*h*4 bytes fitting a buffer
Sources ==
    UNION {[width : {w}, height : {h}, f : [Coords(w, h) -> Colours]] :
           <<w, h>> \in {d \in (0..MaxDim) \X (0..MaxDim) :
                           d[1] * d[2] * SizeOfRGBA <= MaxLen}}

\* Chunky::new(map(|x| x.into(), frame)): row by row, pixel (x, y) at
\* byte offset 4 * (y * width + x)
ChunkyNew(src) ==
    [width |-> src.width, height |-> src.height,
     bytes |-> [i \in 1..(src.width * src.height * SizeOfRGBA) |->
                  LET k == (i - 1) \div SizeOfRGBA
                  IN src.f[<<k % src.width, k \div src.width>>][((i - 1) % SizeOfRGBA) + 1]]]

\* From<Chunky<Rgba>> for Png<Vec<u8>>
FromChunky(frame) ==
    [width |-> frame.width, height |-> frame.height,
     buffer |-> VecBuffer(frame.bytes)]

\* Png::new
PngNew(src) == FromChunky(ChunkyNew(src))

---------------------------------------------------------------------------
(* Ownership of codec allocations *)

\* the allocation a Png owns through its Native buffer
OwnedBy(p) == IF p.buffer.kind = "native" THEN {p.buffer.alloc} ELSE {}

\* Drop for CVec, run once for each owner in `ids`
Freed(ids) == [a \in AllocIds |-> IF a \in ids THEN "free" ELSE heap[a]]

FreeFaults(ids) ==
    IF \E a \in ids : heap[a] # "live" THEN {"double_free"} ELSE {}

\* reading the bytes of allocation set `ids`
ReadFaults(ids) ==
    IF \E a \in ids : heap[a] # "live" THEN {"use_after_free"} ELSE {}

HasFree == \E a \in AllocIds : heap[a] = "free"

\* the block the codec's malloc hands out next
FreshAlloc ==
    CHOOSE a \in AllocIds :
        heap[a] = "free" /\ \A b \in AllocIds : heap[b] = "free" => a <= b

\* a panic unwinds the thread: every value it holds is dropped, and so are
\* the locals of the panicking call (`locals`: allocations it had just got)
Unwind(r, locals) ==
    /\ panicked' = TRUE
    /\ png' = NoPng
    /\ origin' = NoOrigin
    /\ held' = {}
    /\ heap' = [a \in AllocIds |->
                  IF a \in locals THEN "free" ELSE Freed(OwnedBy(png) \cup held)[a]]
    /\ faults' = faults \cup FreeFaults(OwnedBy(png) \cup held)
    /\ result' = r
    /\ UNCHANGED overflow_checks

\* `png = p`: the binding takes the new value and the old one is dropped
Bind(p, o, r) ==
    /\ png' = p
    /\ origin' = o
    /\ heap' = [a \in AllocIds |->
                  IF a \in OwnedBy(p) THEN "live" ELSE Freed(OwnedBy(png))[a]]
    /\ faults' = faults \cup FreeFaults(OwnedBy(png))
    /\ result' = r
    /\ UNCHANGED <<held, panicked, overflow_checks>>

\* an operation that borrows `png`, reads the allocations `reads` and
\* returns r
Borrow(r, reads) ==
    /\ result' = r
    /\ faults' = faults \cup ReadFaults(reads)
    /\ UNCHANGED <<png, origin, heap, held, panicked, overflow_checks>>

---------------------------------------------------------------------------
(* Construction *)

\* from_bytes: assert_eq!(width * height * 4, buffer.as_ref().len())
FromBytesAccepts(width, height, buffer, checks) ==
    LET wh == UMul(width, height, checks)
        whs == UMul(wh.v, SizeOfRGBA, checks)
    IN wh.ok /\ whs.ok /\ whs.v = Len(buffer)

FromBytes(width, height, buffer) ==
    /\ ~panicked /\ ~IsLive(png)
    /\ LET r == [Res("from_bytes", "ok") EXCEPT
                    !.width = width, !.height = height, !.len = Len(buffer)]
       IN IF FromBytesAccepts(width, height, buffer, overflow_checks)
          THEN Bind([width |-> width, height |-> height,
                     buffer |-> VecBuffer(buffer)],
                    [NoOrigin EXCEPT !.how = "from_bytes", !.bytes = buffer],
                    r)
          ELSE Unwind([r EXCEPT !.status = "panic"], {})

New(src) ==
    /\ ~panicked /\ ~IsLive(png)
    /\ Bind(PngNew(src),
            [NoOrigin EXCEPT !.how = "new", !.src = src],
            [Res("new", "ok") EXCEPT !.width = src.width, !.height = src.height])

\* (mutant) the codec's error unwrapped instead of mapped
DecodeOutcomeUnwrap(r, checks) ==
    IF ~r.ok THEN "panic"
    ELSE LET wh == UMul(r.width, r.height, checks)
         IN IF wh.ok /\ Len(r.elems) = wh.v THEN "ok" ELSE "panic"

\* decode, on what decode32 returned: Err(_) => Err(Error); Ok(bmp) passes
\* assert_eq!(bmp.buffer.len(), bmp.width * bmp.height) or panics
DecodeOutcome(r, checks) ==
    IF ~r.ok THEN "err"
    ELSE LET wh == UMul(r.width, r.height, checks)
         IN IF wh.ok /\ Len(r.elems) = wh.v THEN "ok" ELSE "panic"

\* (mutant) the assertion left out
LoadOutcomeNoAssert(r, checks) ==
    IF ~r.ok THEN "err" ELSE "ok"

\* load, on what decode32_file returned: the same match
LoadOutcome(r, checks) ==
    IF ~r.ok THEN "err"
    ELSE LET wh == UMul(r.width, r.height, checks)
         IN IF wh.ok /\ Len(r.elems) = wh.v THEN "ok" ELSE "panic"

\* the rest of decode / load: Png { width, height, buffer: Native::new(..) }
FromCodec(op, st, r, o, n) ==
    LET res == [Res(op, st) EXCEPT !.width = r.width, !.height = r.height,
                                   !.input_len = n,
                                   !.len = Len(r.elems), !.codec_ok = r.ok,
                                   !.breach = r.breach, !.chained = o.chained,
                                   !.base = IF o.chained THEN origin.how ELSE "none"]
    IN /\ r.ok => HasFree
       /\ IF st = "ok"
          THEN Bind([width |-> r.width, height |-> r.height,
                     buffer |-> NativeNew(FreshAlloc, r.elems)], o, res)
          ELSE IF st = "err"
          THEN Bind(NoPng, NoOrigin, res)
          ELSE Unwind(res, {FreshAlloc})

\* decode of bytes that come from elsewhere
Decode(input) ==
    /\ ~panicked /\ ~IsLive(png)
    /\ \E r \in Lodepng_decode32(input) :
          FromCodec("decode", DecodeOutcome(r, overflow_checks), r,
                    [NoOrigin EXCEPT !.how = "decode"], Len(input))

\* decode of what png.encode() has just returned:
\* Png::decode(png.encode().unwrap().as_ref())
DecodeEncoded ==
    /\ ~panicked /\ IsLive(png)
    /\ result.op = "encode" /\ result.status = "ok"
    /\ \E r \in Lodepng_decode32(result.out) :
          FromCodec("decode", DecodeOutcome(r, overflow_checks), r,
                    [NoOrigin EXCEPT !.how = "decode", !.chained = TRUE,
                                     !.bytes = AsRefBytes(png)],
                    Len(result.out))

Load(readable, contents) ==
    /\ ~panicked /\ ~IsLive(png)
    /\ \E r \in Lodepng_decode32_file(readable, contents) :
          FromCodec("load", LoadOutcome(r, overflow_checks), r,
                    [NoOrigin EXCEPT !.how = "load"], Len(contents))

---------------------------------------------------------------------------
(* Borrowing operations *)

\* buffer(): &self.buffer
Buffer ==
    /\ ~panicked /\ IsLive(png)
    /\ Borrow([Res("buffer", "ok") EXCEPT !.len = Len(BufferAsRef(png.buffer))], {})

\* as_ref(): the byte view, read by the caller
AsRef ==
    /\ ~panicked /\ IsLive(png)
    /\ Borrow([Res("as_ref", "ok") EXCEPT !.len = Len(AsRefBytes(png))],
              OwnedBy(png))

\* as_mut(), and the caller filling the &mut [u8] it returns with `bytes`
\* (a slice cannot change its length); Vec<u8> is AsMut<[u8]>, Native is not
AsMut(bytes) ==
    /\ ~panicked /\ png.buffer.kind = "vec"
    /\ Len(bytes) = Len(png.buffer.bytes)
    /\ png' = [png EXCEPT !.buffer.bytes = bytes]
    /\ origin' = [NoOrigin EXCEPT !.how = origin.how, !.written = TRUE]
    /\ result' = Res("as_mut", "ok")
    /\ UNCHANGED <<heap, held, faults, panicked, overflow_checks>>

\* (mutant) x and y, width and height exchanged
PixelOffsetColumnMajor(p, x, y, checks) ==
    LET xh == UMul(x, p.height, checks)
        sum == UAdd(xh.v, y, checks)
        off == IMul(SizeOfRGBA, AsIsize(sum.v), checks)
    IN [ok |-> xh.ok /\ sum.ok /\ off.ok, v |-> off.v]

\* pixel: let offset = 4 * (y * self.width + x) as isize
PixelOffset(p, x, y, checks) ==
    LET yw == UMul(y, p.width, checks)
        sum == UAdd(yw.v, x, checks)
        off == IMul(SizeOfRGBA, AsIsize(sum.v), checks)
    IN [ok |-> yw.ok /\ sum.ok /\ off.ok, v |-> off.v]

\* the 4 bytes at `off` lie inside the byte view
Inside(p, off) == off >= 0 /\ off + SizeOfRGBA <= Len(AsRefBytes(p))

\* pixel: ptr::copy_nonoverlapping(ptr.offset(offset), bytes, 4); a copy
\* from outside the buffer is undefined behaviour: it yields whatever the
\* memory there holds (here: any of the colours, or zeroes)
PixelCopy(p, off) ==
    IF Inside(p, off)
    THEN {[c \in 1..SizeOfRGBA |-> AsRefBytes(p)[off + c]]}
    ELSE Colours \cup {ZeroPixel}

\* pixel(x, y), called as its contract asks: x < width and y < height
PixelAt(x, y) ==
    /\ ~panicked /\ IsLive(png)
    /\ x < png.width /\ y < png.height
    /\ LET off == PixelOffset(png, x, y, overflow_checks)
           r == [Res("pixel", "ok") EXCEPT !.x = x, !.y = y, !.offset = off.v]
       IN IF ~off.ok
          THEN Unwind([r EXCEPT !.status = "panic"], {})
          ELSE \E px \in PixelCopy(png, off.v) :
                  Borrow([r EXCEPT !.px = px, !.inside = Inside(png, off.v)],
                         OwnedBy(png))

\* encode(): encode32(self.buffer.as_ref(), self.width, self.height)
EncodeCall(p) == Lodepng_encode32(AsRefBytes(p), p.width, p.height)

\* (mutant) the buffer taken out of the Png while encoding
EncodeTakes ==
    /\ ~panicked /\ IsLive(png)
    /\ LET e == EncodeCall(png)
       IN /\ result' = [Res("encode", IF e.ok THEN "ok" ELSE "err") EXCEPT
                          !.out = e.out,
                          !.nth = IF result.op = "encode" THEN 2 ELSE 1]
          /\ png' = [png EXCEPT !.buffer.bytes = <<>>]
          /\ UNCHANGED <<origin, heap, held, faults, panicked, overflow_checks>>

\* encode(&self); `nth` tells a first call from a repeated one
Encode ==
    /\ ~panicked /\ IsLive(png)
    /\ LET e == EncodeCall(png)
       IN Borrow([Res("encode", IF e.ok THEN "ok" ELSE "err") EXCEPT
                     !.out = e.out,
                     !.nth = IF result.op = "encode" THEN 2 ELSE 1],
                 OwnedBy(png))

\* save(path): encode32_file; the write itself may fail too
Save(io_ok) ==
    /\ ~panicked /\ IsLive(png)
    /\ Borrow(Res("save", IF EncodeCall(png).ok /\ io_ok THEN "ok" ELSE "err"),
              OwnedBy(png))

---------------------------------------------------------------------------
(* Moves and drops *)

\* (mutant) the buffer handed out while the Png keeps it
IntoBufferCopy ==
    /\ ~panicked /\ IsLive(png)
    /\ held' = held \cup OwnedBy(png)
    /\ result' = Res("into_buffer", "ok")
    /\ UNCHANGED <<png, origin, heap, faults, panicked, overflow_checks>>

\* into_buffer(self) -> T: the Png is gone, the caller owns the buffer
\* (a Vec<u8> moved out is the caller's and is not followed further)
IntoBuffer ==
    /\ ~panicked /\ IsLive(png)
    /\ png' = NoPng
    /\ origin' = NoOrigin
    /\ held' = held \cup OwnedBy(png)
    /\ result' = Res("into_buffer", "ok")
    /\ UNCHANGED <<heap, faults, panicked, overflow_checks>>

\* the Png goes out of scope (`len`: the allocations its drop released)
DropPng ==
    /\ ~panicked /\ IsLive(png)
    /\ Bind(NoPng, NoOrigin,
            [Res("drop", "ok") EXCEPT !.len = Cardinality(OwnedBy(png))])

\* a Native moved out earlier goes out of scope
DropNative(a) ==
    /\ ~panicked /\ a \in held
    /\ held' = held \ {a}
    /\ heap' = Freed({a})
    /\ faults' = faults \cup FreeFaults({a})
    /\ result' = [Res("drop", "ok") EXCEPT !.len = 1]
    /\ UNCHANGED <<png, origin, panicked, overflow_checks>>

\* Native::as_ref() on a Native moved out earlier, and a read of the view
ReadNative(a) ==
    /\ ~panicked /\ a \in held
    /\ result' = Res("as_ref", "ok")
    /\ faults' = faults \cup ReadFaults({a})
    /\ UNCHANGED <<png, origin, heap, held, panicked, overflow_checks>>

---------------------------------------------------------------------------

Init ==
    /\ png = NoPng
    /\ origin = NoOrigin
    /\ heap = [a \in AllocIds |-> "free"]
    /\ held = {}
    /\ faults = {}
    /\ result = NoResult
    /\ panicked = FALSE
    /\ overflow_checks \in BOOLEAN

\* no Png is bound: the program may build one
Idle == ~panicked /\ ~IsLive(png)

Next ==
    \/ Idle /\ \E width \in 0..MaxArg, height \in 0..MaxArg, buffer \in Buffers :
                  FromBytes(width, height, buffer)
    \/ Idle /\ \E src \in Sources : New(src)
    \/ Idle /\ \E input \in DecodeInputs : Decode(input)
    \/ DecodeEncoded
    \/ Idle /\ \E readable \in BOOLEAN, contents \in DecodeInputs :
                  Load(readable, contents)
    \/ Buffer
    \/ AsRef
    \/ \E bytes \in WholeBuffers(Len(png.buffer.bytes)) : AsMut(bytes)
    \/ \E x \in 0..(png.width - 1), y \in 0..(png.height - 1) : PixelAt(x, y)
    \/ Encode
    \/ \E io_ok \in BOOLEAN : Save(io_ok)
    \/ IntoBuffer
    \/ DropPng
    \/ \E a \in AllocIds : DropNative(a)
    \/ \E a \in AllocIds : ReadNative(a)

Spec == Init /\ [][Next]_vars

---------------------------------------------------------------------------
(* Properties *)

\* the pixel count and byte count a width x height image has
Area(p) == p.width * p.height

\* C1: round trip.  When the bytes png.encode() returned for a Png built by
\* Png::new are decoded by a codec that keeps its contract, decode returns
\* a Png whose byte view equals, in length and byte for byte, the buffer of
\* the Png that was encoded.
C1_RoundTrip ==
    (result.op = "decode" /\ result.chained /\ result.base = "new"
        /\ ~result.breach)
    => /\ result.status = "ok"
       /\ IsLive(png)
       /\ Len(AsRefBytes(png)) = Len(origin.bytes)
       /\ AsRefBytes(png) = origin.bytes

C1_Witness ==
    /\ result.op = "decode" /\ result.chained /\ result.base = "new"
    /\ result.status = "ok" /\ ~result.breach
    /\ png.width = 2 /\ png.height = 2
    /\ AsRefBytes(png)[1] # AsRefBytes(png)[5]

\* C2: from_bytes returns a Png only when the buffer's length is exactly
\* width * height * 4, and panics, leaving no Png, for every other length.
C2_FromBytesRejectsMismatch ==
    result.op = "from_bytes"
    => IF result.len = result.width * result.height * SizeOfRGBA
       THEN result.status \in {"ok", "panic"}
       ELSE result.status = "panic" /\ ~IsLive(png)

\* C3: every live Png has a byte view of exactly width * height * 4 bytes,
\* and into_buffer leaves no Png behind.
C3_LayoutInvariant ==
    /\ IsLive(png) => Len(AsRefBytes(png)) = Area(png) * SizeOfRGBA
    /\ result.op = "into_buffer" => ~IsLive(png)

\* C4: materialization equivalence.  A Png built by Png::new(S) has S's
\* width and height, and pixel(x, y) returns S's pixel at (x, y).
C4_MaterializationEquivalence ==
    (origin.how = "new" /\ ~origin.written)
    => /\ png.width = origin.src.width
       /\ png.height = origin.src.height
       /\ result.op = "pixel"
            => /\ result.status = "ok"
               /\ result.px = origin.src.f[<<result.x, result.y>>]

C4_Witness ==
    /\ origin.how = "new" /\ ~origin.written
    /\ result.op = "pixel" /\ result.status = "ok"
    /\ png.width = 2 /\ png.height = 2
    /\ result.x = 0 /\ result.y = 1
    /\ origin.src.f[<<0, 1>>] # origin.src.f[<<1, 0>>]

\* C5: whenever the codec reports a failure, decode returns the one Error
\* value: it does not panic and returns no Png.
C5_DecodeErrorOpaque ==
    (result.op = "decode" /\ ~result.codec_ok)
    => result.status = "err" /\ ~panicked /\ ~IsLive(png)

C5_Witness ==
    /\ result.op = "decode" /\ ~result.codec_ok
    /\ result.input_len = 0 /\ result.status = "err"

\* C6: ownership.  No allocation is released twice or read after its
\* release; an allocation is live exactly while it has an owner, and it
\* never has two.
C6_OwnershipDischarge ==
    /\ faults = {}
    /\ OwnedBy(png) \cap held = {}
    /\ \A a \in AllocIds : heap[a] = "live" <=> a \in (OwnedBy(png) \cup held)

C6_Witness ==
    /\ result.op = "drop" /\ result.len = 1
    /\ \E a \in AllocIds : heap[a] = "free"
    /\ \E a \in held : heap[a] = "live"

\* C7: encode leaves the Png as it was, and an encode that follows an
\* encode returns the same result.
C7_EncodeIdempotent ==
    [][result'.op = "encode"
         => /\ png' = png
            /\ result.op = "encode"
                 => result'.out = result.out /\ result'.status = result.status]_vars

C7_Witness ==
    /\ result.op = "encode" /\ result.nth = 2 /\ result.status = "ok"
    /\ Len(result.out) > 2

C9_PixelLayout ==
    (result.op = "pixel" /\ origin.how = "from_bytes" /\ ~origin.written)
    => LET o == SizeOfRGBA * (result.y * png.width + result.x)
       IN /\ result.status = "ok"
          /\ o + SizeOfRGBA <= Len(origin.bytes)
          /\ result.px = [c \in 1..SizeOfRGBA |-> origin.bytes[o + c]]

\* C10: every pixel(x, y) with x < width and y < height on a Png that
\* from_bytes accepted reads 4 bytes that lie inside the buffer.
C10_PixelReadInside ==
    (result.op = "pixel" /\ result.status = "ok" /\ origin.how = "from_bytes")
    => /\ result.inside
       /\ result.offset >= 0
       /\ result.offset + SizeOfRGBA <= Len(AsRefBytes(png))

=============================================================================
